---- MODULE Spec2Model ----
(***************************************************************************)
(* Model of the investment dashboard script (src/app_en.py; src/app.py is  *)
(* the same program with Portuguese texts).                                *)
(*                                                                         *)
(* Numbers.  The script computes with IEEE doubles.  A double is modelled  *)
(* as a record: a finite value in fixed point (an integer count of         *)
(* 1/Scale), NaN, or a signed infinity.  Finite arithmetic rounds toward   *)
(* zero at 1/Scale instead of at 2^-53; division by zero, NaN propagation  *)
(* and the ordering of NaN follow IEEE 754 as numpy applies it (a warning, *)
(* never an exception).                                                    *)
(***************************************************************************)
EXTENDS Integers, Sequences, FiniteSets, TLC

VARIABLES
    pc,                     \* the top-level statement the script is at
    fill_method,            \* what DataFrame.pct_change() defaults to in the installed pandas
    data,                   \* line 38: the price table, a sequence of date rows
    returns,                \* line 41
    optimal_portfolio,      \* line 49: the OptimizeResult of scipy's minimize
    optimal_weights,        \* line 50
    opt_return,             \* line 53
    opt_std,                \* line 53
    opt_sharpe,             \* line 54
    VaR_95,                 \* line 57
    portfolio_returns,      \* line 94
    cumulative_returns,     \* line 95
    evaluation,             \* lines 103-106: which evaluation text was written
    rendered,               \* the widgets written to the page so far
    risk_free_rate_slider,  \* line 142, in tenths of a percent
    opt_sharpe_adjusted,    \* line 146
    error,                  \* the exception that ended the run, or "none"
    call,                   \* the latest direct call of an engine function
    prev                    \* the call before it

vars == <<pc, fill_method, data, returns, optimal_portfolio, optimal_weights,
          opt_return, opt_std, opt_sharpe, VaR_95, portfolio_returns,
          cumulative_returns, evaluation, rendered, risk_free_rate_slider,
          opt_sharpe_adjusted, error, call, prev>>

(***************************************************************************)
(* Bounds of the model.                                                    *)
(***************************************************************************)
MaxDates == 3       \* most date rows of a price table
MaxPrice == 2       \* prices range over 1..MaxPrice, or are missing
GridDen == 2        \* weights are multiples of 1/GridDen
MaxRows == 3        \* most rows of a return table handed directly to an engine function
MaxWeights == 3     \* longest weight vector handed directly to portfolio_performance

Scale == 10 ^ 3

\* line 37; the model keeps two of the script's five tickers
tickers == <<"AAPL", "MSFT">>
NumAssets == Len(tickers)
Assets == 1..NumAssets

(***************************************************************************)
(* Doubles.                                                                *)
(***************************************************************************)
F(n) == [k |-> "fin", v |-> n]
NaN == [k |-> "nan", v |-> 0]
PosInf == [k |-> "inf", v |-> 1]
NegInf == [k |-> "inf", v |-> -1]
Unset == [k |-> "unset", v |-> 0]       \* a name the script has not assigned yet

IsFin(a) == a.k = "fin"
IsNaN(a) == a.k = "nan"
IsInf(a) == a.k = "inf"

Abs(n) == IF n < 0 THEN -n ELSE n
Sgn(n) == IF n < 0 THEN -1 ELSE IF n > 0 THEN 1 ELSE 0
\* integer quotient rounded toward zero
Quot(a, b) == Sgn(a) * Sgn(b) * (Abs(a) \div Abs(b))

FNeg(a) == IF IsNaN(a) THEN NaN ELSE [k |-> a.k, v |-> -a.v]

FAdd(a, b) ==
    IF IsNaN(a) \/ IsNaN(b) THEN NaN
    ELSE IF IsInf(a) /\ IsInf(b) THEN (IF a.v = b.v THEN a ELSE NaN)
    ELSE IF IsInf(a) THEN a
    ELSE IF IsInf(b) THEN b
    ELSE F(a.v + b.v)

FSub(a, b) == FAdd(a, FNeg(b))

FMul(a, b) ==
    IF IsNaN(a) \/ IsNaN(b) THEN NaN
    ELSE IF IsInf(a) \/ IsInf(b)
         THEN (IF Sgn(a.v) * Sgn(b.v) = 0 THEN NaN
               ELSE IF Sgn(a.v) * Sgn(b.v) > 0 THEN PosInf ELSE NegInf)
    ELSE F(Quot(a.v * b.v, Scale))

\* a double times an exact integer
FTimes(a, n) ==
    IF IsNaN(a) THEN NaN
    ELSE IF IsInf(a) THEN (IF n = 0 THEN NaN ELSE IF n > 0 THEN a ELSE FNeg(a))
    ELSE F(a.v * n)

\* numpy true division of doubles: x/0 is a signed infinity, 0/0 is NaN
FDiv(a, b) ==
    IF IsNaN(a) \/ IsNaN(b) THEN NaN
    ELSE IF IsInf(a) /\ IsInf(b) THEN NaN
    ELSE IF IsInf(a) THEN (IF b.v < 0 THEN FNeg(a) ELSE a)
    ELSE IF IsInf(b) THEN F(0)
    ELSE IF b.v = 0
         THEN (IF a.v = 0 THEN NaN ELSE IF a.v > 0 THEN PosInf ELSE NegInf)
    ELSE F(Quot(a.v * Scale, b.v))

\* a < b on doubles: false as soon as one side is NaN
FLt(a, b) ==
    IF IsNaN(a) \/ IsNaN(b) THEN FALSE
    ELSE IF IsInf(a) /\ IsInf(b) THEN a.v < b.v
    ELSE IF IsInf(a) THEN a.v < 0
    ELSE IF IsInf(b) THEN b.v > 0
    ELSE a.v < b.v

FGt(a, b) == FLt(b, a)
FLe(a, b) == ~IsNaN(a) /\ ~IsNaN(b) /\ ~FLt(b, a)

RECURSIVE RootBetween(_, _, _)
RootBetween(n, lo, hi) ==
    IF lo >= hi THEN lo
    ELSE LET mid == (lo + hi + 1) \div 2
         IN  IF mid * mid <= n THEN RootBetween(n, mid, hi)
             ELSE RootBetween(n, lo, mid - 1)

\* the largest r with r*r <= n
ISqrt(n) == RootBetween(n, 0, IF n < 46340 THEN n ELSE 46340)

\* np.sqrt: NaN for a negative or NaN argument
FSqrt(a) ==
    IF IsNaN(a) THEN NaN
    ELSE IF IsInf(a) THEN (IF a.v > 0 THEN PosInf ELSE NaN)
    ELSE IF a.v < 0 THEN NaN
    ELSE F(ISqrt(a.v * Scale))

RECURSIVE FSum(_)
FSum(s) == IF Len(s) = 0 THEN F(0) ELSE FAdd(Head(s), FSum(Tail(s)))

RECURSIVE IntSum(_)
IntSum(s) == IF Len(s) = 0 THEN 0 ELSE Head(s) + IntSum(Tail(s))

(***************************************************************************)
(* Tables.  The price table is a sequence of date rows, row t holding the  *)
(* prices of date t.  A derived table keeps the date index: its rows are   *)
(* records [date, v].                                                      *)
(***************************************************************************)
PriceColumn(prices, i) == [t \in 1..Len(prices) |-> prices[t][i]]
Column(table, i) == [t \in 1..Len(table) |-> table[t].v[i]]

(***************************************************************************)
(* calculate_returns: prices.pct_change().dropna()                         *)
(***************************************************************************)
\* DataFrame.fillna(method='pad'): each missing cell takes the last value above it
RECURSIVE Pad(_)
Pad(col) ==
    IF Len(col) <= 1 THEN col
    ELSE LET init == Pad(SubSeq(col, 1, Len(col) - 1))
             last == col[Len(col)]
         IN  Append(init, IF IsNaN(last) THEN init[Len(init)] ELSE last)

\* pct_change of one column: data / data.shift(1) - 1, the first row undefined
PctChangeColumn(col, fill) ==
    LET filled == IF fill = "pad" THEN Pad(col) ELSE col
    IN  [t \in 1..Len(col) |->
            IF t = 1 THEN NaN
            ELSE FSub(FDiv(filled[t], filled[t - 1]), F(Scale))]

pct_change(prices, fill) ==
    [t \in 1..Len(prices) |->
        [date |-> t,
         v |-> [i \in Assets |-> PctChangeColumn(PriceColumn(prices, i), fill)[t]]]]

\* DataFrame.dropna(): a row with a NaN in any column is removed
RECURSIVE dropna(_)
dropna(table) ==
    IF Len(table) = 0 THEN <<>>
    ELSE LET row == Head(table)
         IN  IF \E i \in DOMAIN row.v : IsNaN(row.v[i])
             THEN dropna(Tail(table))
             ELSE <<row>> \o dropna(Tail(table))

calculate_returns(prices, fill) == dropna(pct_change(prices, fill))

(***************************************************************************)
(* portfolio_performance.  A weight vector is a sequence of numerators     *)
(* over GridDen, so that its sum is exact.                                 *)
(***************************************************************************)
TradingDays == 252
\* the default of negative_sharpe_ratio's risk_free_rate, and line 46: 0.01
risk_free_rate == F(Scale \div 100)

\* a double times the weight k/GridDen
FWeight(a, k) ==
    IF IsNaN(a) THEN NaN
    ELSE IF IsInf(a) THEN (IF k = 0 THEN NaN ELSE a)
    ELSE F(Quot(a.v * k, GridDen))

\* Series.mean(): NaN for an empty column
Mean(col) == FDiv(FSum(col), F(Len(col) * Scale))

\* DataFrame.cov(): the sample covariance (N-1 denominator), NaN under two rows
Cov(colx, coly) ==
    IF Len(colx) < 2 THEN NaN
    ELSE LET mx == Mean(colx)
             my == Mean(coly)
             prods == [t \in 1..Len(colx) |->
                          FMul(FSub(colx[t], mx), FSub(coly[t], my))]
         IN  FDiv(FSum(prods), F((Len(colx) - 1) * Scale))

\* returns.mean() * weights: numpy broadcasts a length-1 operand, any other
\* length mismatch is a ValueError
BroadcastOk(n, m) == n = m \/ m = 1
\* np.dot of an (n, n) matrix with an (m,) vector: a ValueError unless n = m
DotOk(n, m) == n = m

\* line 16
PortfolioReturn(weights, table) ==
    LET m == Len(weights)
        terms == [i \in Assets |->
                     FWeight(Mean(Column(table, i)), weights[IF m = 1 THEN 1 ELSE i])]
    IN  FTimes(FSum(terms), TradingDays)

\* line 17
PortfolioStd(weights, table) ==
    LET C(i, j) == FTimes(Cov(Column(table, i), Column(table, j)), TradingDays)
        inner == [i \in Assets |->
                     FSum([j \in Assets |-> FWeight(C(i, j), weights[j])])]
        outer == FSum([i \in Assets |-> FWeight(inner[i], weights[i])])
    IN  FSqrt(outer)

portfolio_performance(weights, table) ==
    IF ~BroadcastOk(NumAssets, Len(weights))
    THEN [err |-> "ValueError", ret |-> Unset, std |-> Unset]
    ELSE IF ~DotOk(NumAssets, Len(weights))
    THEN [err |-> "ValueError", ret |-> Unset, std |-> Unset]
    ELSE [err |-> "none",
          ret |-> PortfolioReturn(weights, table),
          std |-> PortfolioStd(weights, table)]

\* lines 20-22, the risk-free rate a parameter
negative_sharpe_ratio(weights, table, rf) ==
    LET p == portfolio_performance(weights, table)
    IN  FNeg(FDiv(FSub(p.ret, rf), p.std))

(***************************************************************************)
(* max_sharpe_ratio.  scipy's SLSQP is a library: its result is any        *)
(* outcome the solver's contract allows.  A converged result (success,     *)
(* status 0) is a point that meets the bounds and the equality constraint  *)
(* and that no feasible point of the grid beats.  A run that stops early   *)
(* (iteration limit 9, failed line search 8) hands back its last iterate,  *)
(* which lies within the bounds but need not meet the constraint.          *)
(***************************************************************************)
Box == [Assets -> 0..GridDen]                               \* line 28
Constraint(x) == IntSum([i \in Assets |-> x[i]]) = GridDen  \* line 27
Feasible == {x \in Box : Constraint(x)}

\* line 26: args = (returns,), so the objective runs with its default rate
Objective(x, table) == negative_sharpe_ratio(x, table, risk_free_rate)

FailureStatus == {8, 9}

minimize(table) ==
    {[x |-> x, success |-> TRUE, status |-> 0, fun |-> Objective(x, table)] :
        x \in {y \in Feasible :
                  \A z \in Feasible : ~FLt(Objective(z, table), Objective(y, table))}}
    \cup
    {[x |-> x, success |-> FALSE, status |-> st, fun |-> Objective(x, table)] :
        x \in Box, st \in FailureStatus}

\* lines 24-31: the result is returned as the solver gave it
max_sharpe_ratio(table) == minimize(table)

(***************************************************************************)
(* calculate_var: returns.quantile(confidence_level, axis=0), the level in *)
(* percent.  pandas rejects a level outside [0, 1] with a ValueError and   *)
(* interpolates linearly between the order statistics of each column.      *)
(***************************************************************************)
\* x put at its place in an ascending sequence
RECURSIVE Insert(_, _)
Insert(x, sorted) ==
    IF Len(sorted) = 0 THEN <<x>>
    ELSE IF FLt(Head(sorted), x) THEN <<Head(sorted)>> \o Insert(x, Tail(sorted))
    ELSE <<x>> \o sorted

\* the column taken in date order, as if it were its order statistics
DateOrder(col) == col

\* the order statistics of a column
RECURSIVE OrderStatistics(_)
OrderStatistics(col) ==
    IF Len(col) = 0 THEN <<>> ELSE Insert(Head(col), OrderStatistics(Tail(col)))

Quantile(col, pct) ==
    IF Len(col) = 0 THEN NaN
    ELSE LET sorted == OrderStatistics(col)
             pos == pct * (Len(col) - 1)
             lo == pos \div 100
             rem == pos % 100
         IN  IF rem = 0 THEN sorted[lo + 1]
             ELSE F(sorted[lo + 1].v
                    + Quot((sorted[lo + 2].v - sorted[lo + 1].v) * rem, 100))

calculate_var(table, pct) ==
    IF pct < 0 \/ pct > 100
    THEN [err |-> "ValueError", var |-> <<>>]
    ELSE [err |-> "none", var |-> [i \in Assets |-> Quantile(Column(table, i), pct)]]

(***************************************************************************)
(* The script: one action per top-level statement group, in file order.    *)
(* Streamlit runs the file from its first line to its last, shows an       *)
(* uncaught exception in place of the rest of the page, and runs the file  *)
(* again from the top when the slider is moved.                            *)
(***************************************************************************)
PriceVals == {NaN} \cup {F(p * Scale) : p \in 1..MaxPrice}
PriceTables == UNION {[1..n -> [Assets -> PriceVals]] : n \in 0..MaxDates}

\* positions of the slider of line 142 the model moves it to, in tenths of a percent
SliderVals == {0, 5, 10, 50}
SliderDefault == 10

NoResult == [x |-> <<>>, success |-> FALSE, status |-> -1, fun |-> Unset]

Fresh ==
    /\ returns = <<>>
    /\ optimal_portfolio = NoResult
    /\ optimal_weights = <<>>
    /\ opt_return = Unset
    /\ opt_std = Unset
    /\ opt_sharpe = Unset
    /\ VaR_95 = <<>>
    /\ portfolio_returns = <<>>
    /\ cumulative_returns = <<>>
    /\ evaluation = "none"
    /\ rendered = {}
    /\ opt_sharpe_adjusted = Unset
    /\ error = "none"

NoCall == [fn |-> "none", table |-> <<>>, weights |-> <<>>, pct |-> 0,
           err |-> "none", ret |-> Unset, std |-> Unset, var |-> <<>>]

Init ==
    /\ pc = "calculate_returns"
    /\ fill_method \in {"pad", "none"}
    /\ data \in PriceTables                     \* line 38, the market data source
    /\ risk_free_rate_slider = SliderDefault
    /\ Fresh
    /\ call = NoCall
    /\ prev = NoCall

\* line 41
CalculateReturns ==
    /\ pc = "calculate_returns"
    /\ returns' = calculate_returns(data, fill_method)
    /\ pc' = "max_sharpe_ratio"
    /\ UNCHANGED <<fill_method, data, optimal_portfolio, optimal_weights, opt_return,
                   opt_std, opt_sharpe, VaR_95, portfolio_returns, cumulative_returns,
                   evaluation, rendered, risk_free_rate_slider, opt_sharpe_adjusted,
                   error, call, prev>>

\* lines 49-50
MaxSharpeRatio ==
    /\ pc = "max_sharpe_ratio"
    /\ \E result \in max_sharpe_ratio(returns) :
          /\ optimal_portfolio' = result
          /\ optimal_weights' = result.x
    /\ pc' = "portfolio_performance"
    /\ UNCHANGED <<fill_method, data, returns, opt_return, opt_std, opt_sharpe, VaR_95,
                   portfolio_returns, cumulative_returns, evaluation, rendered,
                   risk_free_rate_slider, opt_sharpe_adjusted, error, call, prev>>

\* lines 53-54
PortfolioPerformance ==
    /\ pc = "portfolio_performance"
    /\ LET p == portfolio_performance(optimal_weights, returns)
       IN  /\ opt_return' = p.ret
           /\ opt_std' = p.std
           /\ opt_sharpe' = FDiv(FSub(p.ret, risk_free_rate), p.std)
    /\ pc' = "calculate_var"
    /\ UNCHANGED <<fill_method, data, returns, optimal_portfolio, optimal_weights, VaR_95,
                   portfolio_returns, cumulative_returns, evaluation, rendered,
                   risk_free_rate_slider, opt_sharpe_adjusted, error, call, prev>>

\* the default confidence level passed at line 57: 0.05
VaRLevel == 5

\* line 57
CalculateVaR ==
    /\ pc = "calculate_var"
    /\ VaR_95' = calculate_var(returns, VaRLevel).var
    /\ pc' = "line_chart"
    /\ UNCHANGED <<fill_method, data, returns, optimal_portfolio, optimal_weights,
                   opt_return, opt_std, opt_sharpe, portfolio_returns,
                   cumulative_returns, evaluation, rendered, risk_free_rate_slider,
                   opt_sharpe_adjusted, error, call, prev>>

\* returns.dot(optimal_weights): one portfolio return per kept date
Dot(table, weights) ==
    [t \in 1..Len(table) |->
        FSum([i \in Assets |-> FWeight(table[t].v[i], weights[i])])]

\* (1 + portfolio_returns).cumprod()
RECURSIVE CumProd(_)
CumProd(s) ==
    IF Len(s) = 0 THEN <<>>
    ELSE IF Len(s) = 1 THEN <<FAdd(F(Scale), s[1])>>
    ELSE LET init == CumProd(SubSeq(s, 1, Len(s) - 1))
         IN  Append(init, FMul(init[Len(init)], FAdd(F(Scale), s[Len(s)])))

\* lines 94-96
LineChart ==
    /\ pc = "line_chart"
    /\ portfolio_returns' = Dot(returns, optimal_weights)
    /\ cumulative_returns' = CumProd(Dot(returns, optimal_weights))
    /\ rendered' = rendered \cup {"line_chart"}
    /\ pc' = "evaluation"
    /\ UNCHANGED <<fill_method, data, returns, optimal_portfolio, optimal_weights,
                   opt_return, opt_std, opt_sharpe, VaR_95, evaluation,
                   risk_free_rate_slider, opt_sharpe_adjusted, error, call, prev>>

\* lines 103-106: iloc[-1] of an empty Series is an IndexError
Evaluation ==
    /\ pc = "evaluation"
    /\ \/ /\ Len(portfolio_returns) = 0
          /\ error' = "IndexError"
          /\ pc' = "halted"
          /\ UNCHANGED evaluation
       \/ /\ Len(portfolio_returns) > 0
          /\ evaluation' =
                IF FGt(portfolio_returns[Len(portfolio_returns)], F(Scale))
                THEN "positive" ELSE "negative"
          /\ pc' = "metrics"
          /\ UNCHANGED error
    /\ UNCHANGED <<fill_method, data, returns, optimal_portfolio, optimal_weights,
                   opt_return, opt_std, opt_sharpe, VaR_95, portfolio_returns,
                   cumulative_returns, rendered, risk_free_rate_slider,
                   opt_sharpe_adjusted, call, prev>>

\* lines 110-114: the four metric cards
Metrics ==
    /\ pc = "metrics"
    /\ rendered' = rendered \cup {"metric_return", "metric_volatility",
                                  "metric_sharpe", "metric_var"}
    /\ pc' = "bar_chart"
    /\ UNCHANGED <<fill_method, data, returns, optimal_portfolio, optimal_weights,
                   opt_return, opt_std, opt_sharpe, VaR_95, portfolio_returns,
                   cumulative_returns, evaluation, risk_free_rate_slider,
                   opt_sharpe_adjusted, error, call, prev>>

\* line 128
BarChart ==
    /\ pc = "bar_chart"
    /\ rendered' = rendered \cup {"bar_chart"}
    /\ pc' = "sensitivity"
    /\ UNCHANGED <<fill_method, data, returns, optimal_portfolio, optimal_weights,
                   opt_return, opt_std, opt_sharpe, VaR_95, portfolio_returns,
                   cumulative_returns, evaluation, risk_free_rate_slider,
                   opt_sharpe_adjusted, error, call, prev>>

\* risk_free_rate_slider / 100, the slider in tenths of a percent
SliderRate(tenths) == F((tenths * Scale) \div 1000)

\* lines 142-156
Sensitivity ==
    /\ pc = "sensitivity"
    /\ opt_sharpe_adjusted' =
          FDiv(FSub(opt_return, SliderRate(risk_free_rate_slider)), opt_std)
    /\ rendered' = rendered \cup {"slider", "sensitivity"}
    /\ pc' = "done"
    /\ UNCHANGED <<fill_method, data, returns, optimal_portfolio, optimal_weights,
                   opt_return, opt_std, opt_sharpe, VaR_95, portfolio_returns,
                   cumulative_returns, evaluation, risk_free_rate_slider, error,
                   call, prev>>

\* the user moves the slider: the script runs again from the top
SliderChange ==
    /\ pc = "done"
    /\ \E s \in SliderVals \ {risk_free_rate_slider} : risk_free_rate_slider' = s
    /\ pc' = "calculate_returns"
    /\ returns' = <<>>
    /\ optimal_portfolio' = NoResult
    /\ optimal_weights' = <<>>
    /\ opt_return' = Unset
    /\ opt_std' = Unset
    /\ opt_sharpe' = Unset
    /\ VaR_95' = <<>>
    /\ portfolio_returns' = <<>>
    /\ cumulative_returns' = <<>>
    /\ evaluation' = "none"
    /\ rendered' = {}
    /\ opt_sharpe_adjusted' = Unset
    /\ error' = "none"
    /\ UNCHANGED <<fill_method, data, call, prev>>

Next ==
    \/ CalculateReturns
    \/ MaxSharpeRatio
    \/ PortfolioPerformance
    \/ CalculateVaR
    \/ LineChart
    \/ Evaluation
    \/ Metrics
    \/ BarChart
    \/ Sensitivity
    \/ SliderChange

Spec == Init /\ [][Next]_vars

(***************************************************************************)
(* The engine functions called directly, on any return table and any       *)
(* argument: portfolio_performance under EvalSpec, calculate_var under     *)
(* VaRSpec.  call is the latest call with its outcome, prev the one before.*)
(***************************************************************************)
ReturnVals == {F(-(Scale \div 2)), F(0), F(Scale)}
ReturnTables ==
    UNION {[1..n -> {[date |-> d, v |-> r] : d \in {0}, r \in [Assets -> ReturnVals]}] :
              n \in 0..MaxRows}
\* the rows of a table numbered by their position
Indexed(table) == [t \in 1..Len(table) |-> [date |-> t + 1, v |-> table[t].v]]

WeightVectors == UNION {[1..n -> 0..GridDen] : n \in 1..MaxWeights}

\* confidence levels in percent, inside and outside [0, 100]
Levels == {-5, 0, 1, 5, 10, 100, 105}

EngineIdle ==
    /\ fill_method = "none"
    /\ data = <<>>
    /\ risk_free_rate_slider = SliderDefault
    /\ optimal_portfolio = NoResult
    /\ optimal_weights = <<>>
    /\ opt_return = Unset
    /\ opt_std = Unset
    /\ opt_sharpe = Unset
    /\ VaR_95 = <<>>
    /\ portfolio_returns = <<>>
    /\ cumulative_returns = <<>>
    /\ evaluation = "none"
    /\ rendered = {}
    /\ opt_sharpe_adjusted = Unset
    /\ error = "none"
    /\ call = NoCall
    /\ prev = NoCall

EvalInit ==
    /\ pc = "evaluate"
    /\ returns \in {Indexed(table) : table \in ReturnTables}
    /\ EngineIdle

\* portfolio_performance(weights, returns), once per table
CallEvaluate ==
    /\ pc = "evaluate"
    /\ call.fn = "none"
    /\ \E weights \in WeightVectors :
          LET p == portfolio_performance(weights, returns)
          IN  call' = [fn |-> "portfolio_performance", table |-> returns,
                       weights |-> weights, pct |-> 0,
                       err |-> p.err, ret |-> p.ret, std |-> p.std, var |-> <<>>]
    /\ prev' = call
    /\ UNCHANGED <<pc, fill_method, data, returns, optimal_portfolio, optimal_weights,
                   opt_return, opt_std, opt_sharpe, VaR_95, portfolio_returns,
                   cumulative_returns, evaluation, rendered, risk_free_rate_slider,
                   opt_sharpe_adjusted, error>>

EvalNext == CallEvaluate

EvalSpec == EvalInit /\ [][EvalNext]_vars

VaRInit ==
    /\ pc = "historicalVaR"
    /\ returns \in {Indexed(table) : table \in ReturnTables}
    /\ EngineIdle

VaRCall(table, pct) ==
    LET q == calculate_var(table, pct)
    IN  [fn |-> "calculate_var", table |-> table, weights |-> <<>>, pct |-> pct,
         err |-> q.err, ret |-> Unset, std |-> Unset, var |-> q.var]

\* calculate_var(returns, confidence_level); two calls are followed
CallVaR ==
    /\ pc = "historicalVaR"
    /\ prev.fn = "none"
    /\ \E pct \in Levels : call' = VaRCall(returns, pct)
    /\ prev' = call
    /\ UNCHANGED <<pc, fill_method, data, returns, optimal_portfolio, optimal_weights,
                   opt_return, opt_std, opt_sharpe, VaR_95, portfolio_returns,
                   cumulative_returns, evaluation, rendered, risk_free_rate_slider,
                   opt_sharpe_adjusted, error>>

\* the same call again after one return of one asset has changed
CallVaRChanged ==
    /\ pc = "historicalVaR"
    /\ call.fn = "calculate_var"
    /\ prev.fn = "none"
    /\ \E t \in 1..Len(returns), i \in Assets, r \in ReturnVals :
          /\ returns' = [returns EXCEPT ![t].v[i] = r]
          /\ call' = VaRCall(returns', call.pct)
    /\ prev' = call
    /\ UNCHANGED <<pc, fill_method, data, optimal_portfolio, optimal_weights,
                   opt_return, opt_std, opt_sharpe, VaR_95, portfolio_returns,
                   cumulative_returns, evaluation, rendered, risk_free_rate_slider,
                   opt_sharpe_adjusted, error>>

VaRNext == CallVaR \/ CallVaRChanged

VaRSpec == VaRInit /\ [][VaRNext]_vars

(***************************************************************************)
(* Claims.                                                                 *)
(***************************************************************************)
Solved == optimal_portfolio.status # -1
NotConverged == Solved /\ ~optimal_portfolio.success
MetricCards == {"metric_return", "metric_volatility", "metric_sharpe", "metric_var"}

\* C1: when the solver reports non-success, its last iterate is never used as
\* the optimal weights of the reported metrics: no portfolio statistic is
\* computed from it and no metric card shows one.
C1_UnconvergedNeverReported ==
    NotConverged =>
        /\ opt_return = Unset
        /\ opt_std = Unset
        /\ opt_sharpe = Unset
        /\ rendered \cap MetricCards = {}

\* C2: calculate_returns on a price table of fewer than two date rows fails
\* with InsufficientDataError and hands back no return table.
C2_InsufficientDataRaised ==
    (pc # "calculate_returns" /\ Len(data) < 2) => error = "InsufficientDataError"

\* C3: every weight vector max_sharpe_ratio hands to the script sums to one and
\* has each component in [0, 1], whatever the solver's outcome.
C3_WeightVectorInvariant ==
    Solved =>
        /\ IntSum(optimal_weights) = GridDen
        /\ \A i \in Assets : optimal_weights[i] \in 0..GridDen

\* the guarded ratio at zero volatility: +infinity, -infinity or 0 by the sign
\* of the numerator
GuardedRatio(numerator) ==
    IF FGt(numerator, F(0)) THEN PosInf
    ELSE IF FLt(numerator, F(0)) THEN NegInf
    ELSE F(0)

\* C4: when the annualized volatility of the converged weights is exactly zero,
\* the objective, opt_sharpe and opt_sharpe_adjusted take the guarded value
\* (+infinity, -infinity or 0) and never NaN.
C4_ZeroVolatilityGuarded ==
    (optimal_portfolio.success /\ opt_std = F(0)) =>
        /\ optimal_portfolio.fun =
              FNeg(GuardedRatio(FSub(opt_return, risk_free_rate)))
        /\ opt_sharpe = GuardedRatio(FSub(opt_return, risk_free_rate))
        /\ opt_sharpe_adjusted # Unset =>
              opt_sharpe_adjusted =
                 GuardedRatio(FSub(opt_return, SliderRate(risk_free_rate_slider)))

\* the simple return of asset i at date t from the prices as they are in the table
SimpleReturn(prices, t, i) ==
    FDiv(FSub(prices[t][i], prices[t - 1][i]), prices[t - 1][i])

Near(a, b) == IsFin(a) /\ IsFin(b) /\ Abs(a.v - b.v) <= 1

\* C5: every date calculate_returns keeps is past the first, has a defined
\* price for every asset, and carries each asset's simple return over the
\* date before it; a date with an undefined price is kept for no asset.
C5_UndefinedDatesDropped ==
    pc # "calculate_returns" =>
        \A r \in 1..Len(returns) :
            LET t == returns[r].date
            IN  /\ t >= 2
                /\ \A i \in Assets :
                      /\ ~IsNaN(data[t][i])
                      /\ Near(returns[r].v[i], SimpleReturn(data, t, i))

\* the solver's converged result is a minimum of the objective at rate rf
MinimizedUnder(rf) ==
    /\ optimal_portfolio.fun = negative_sharpe_ratio(optimal_weights, returns, rf)
    /\ \A z \in Feasible :
          ~FLt(negative_sharpe_ratio(z, returns, rf),
               negative_sharpe_ratio(optimal_weights, returns, rf))

\* C6: for each risk-free rate a Sharpe ratio is reported with (risk_free_rate
\* and the slider's), the reported weights minimize the objective evaluated
\* at that same rate; stated for a converged result of positive volatility.
C6_ObjectiveUsesReportedRate ==
    (pc = "done" /\ optimal_portfolio.success /\ FGt(opt_std, F(0))) =>
        /\ MinimizedUnder(risk_free_rate)
        /\ MinimizedUnder(SliderRate(risk_free_rate_slider))

EngineErrors == {"InsufficientDataError", "DimensionMismatchError",
                 "InvalidParameterError", "OptimizationFailedError"}

\* C7: once an engine error condition has occurred in a run (fewer than two
\* price rows, or a solver that did not converge), no chart and no metric card
\* is rendered and, when the run has ended, the error is what the page shows.
C7_NoRenderAfterError ==
    ((pc # "calculate_returns" /\ Len(data) < 2) \/ NotConverged) =>
        /\ rendered \cap ({"line_chart", "bar_chart"} \cup MetricCards) = {}
        /\ pc \in {"done", "halted"} => error \in EngineErrors

\* C8: portfolio_performance on a weight vector whose length is not the number
\* of assets fails with DimensionMismatchError and returns no statistics.
C8_DimensionMismatchRaised ==
    (call.fn = "portfolio_performance" /\ Len(call.weights) # NumAssets) =>
        /\ call.err = "DimensionMismatchError"
        /\ call.ret = Unset
        /\ call.std = Unset

\* C9: calculate_var returns a VaR vector only for a confidence level strictly
\* between 0 and 1.
C9_LevelOpenInterval ==
    (call.fn = "calculate_var" /\ call.err = "none") =>
        (0 < call.pct /\ call.pct < 100)

BothVaR ==
    /\ prev.fn = "calculate_var" /\ prev.err = "none"
    /\ call.fn = "calculate_var" /\ call.err = "none"

\* C10: for every return table and asset, the VaR of a lower level is at most
\* the VaR of a higher level (both undefined when the table has no row), and
\* an asset's VaR is the same for two tables that agree on that asset's column.
C10_VaRMonotone ==
    BothVaR =>
        \A i \in Assets :
            /\ (prev.table = call.table /\ prev.pct < call.pct) =>
                  IF Len(call.table) = 0
                  THEN IsNaN(prev.var[i]) /\ IsNaN(call.var[i])
                  ELSE FLe(prev.var[i], call.var[i])
            /\ (prev.pct = call.pct
                /\ Column(prev.table, i) = Column(call.table, i)) =>
                  prev.var[i] = call.var[i]

\* a column not in ascending date order whose VaR strictly rises from the 1%
\* level to the 10% level
C10_Witness ==
    /\ BothVaR
    /\ prev.table = call.table
    /\ prev.pct = 1 /\ call.pct = 10
    /\ Len(call.table) = MaxRows
    /\ FGt(call.table[1].v[1], call.table[2].v[1])
    /\ FLt(prev.var[1], call.var[1])

\* the portfolio grew over the analysed period: the last cumulative value is over 1
Grew ==
    /\ Len(cumulative_returns) > 0
    /\ FGt(cumulative_returns[Len(cumulative_returns)], F(Scale))

\* C11: once the evaluation under the cumulative chart is written for converged
\* weights, it is the positive one exactly when the final value of
\* cumulative_returns is greater than 1, and the negative one otherwise.
C11_EvaluationFollowsGrowth ==
    (evaluation # "none" /\ optimal_portfolio.success) =>
        (evaluation = "positive" <=> Grew)

====
